---- MODULE Spec2Model ----
(***************************************************************************)
(* MembershipPro: the in-memory store (MemStorage) and the route handlers  *)
(* of server/routes.ts.  Spec runs the route handlers one request at a     *)
(* time; CancelSpec also cancels memberships between requests; StorageSpec *)
(* calls the methods of the store directly.                                *)
(*                                                                         *)
(* Units.  Money held as a JS number in dollars is modelled in mills       *)
(* (1/1000 dollar) for request amounts and in cents for parsed plan        *)
(* prices; amounts sent to the gateway are integer cents.  Time is counted *)
(* in ticks of half a day (TicksPerDay ticks per day).  Quotients of JS    *)
(* doubles are modelled as exact rationals [num, den].                     *)
(***************************************************************************)
EXTENDS Integers, Sequences, FiniteSets, TLC

(***************************************************************************)
(* Bounds of the model.                                                    *)
(***************************************************************************)
MaxRecords == 2      \* successful purchases (stored payments / memberships)
MaxIntents == 2      \* payment intents the gateway creates
MaxTicks == 1        \* advances of the clock

(***************************************************************************)
(* Time.                                                                   *)
(***************************************************************************)
TicksPerDay == 2
TickStep == 31 * TicksPerDay + 1     \* the clock advances 31.5 days at a time
TickSteps == {TickStep - TicksPerDay, TickStep}      \* or 30.5 days

(***************************************************************************)
(* JS values.                                                              *)
(***************************************************************************)
Undefined == [undefined |-> TRUE]
Null == [null |-> TRUE]

\* parseInt on the path parameters the model sends
parseInt(s) ==
  CASE s = "0" -> [nan |-> FALSE, n |-> 0]
    [] s = "1" -> [nan |-> FALSE, n |-> 1]
    [] s = "2" -> [nan |-> FALSE, n |-> 2]
    [] s = "3" -> [nan |-> FALSE, n |-> 3]
    [] OTHER -> [nan |-> TRUE, n |-> 0]

isNaN(x) == x.nan

\* parseFloat on a decimal price string, in cents
parseFloat(s) ==
  CASE s = "9.99" -> 999
    [] s = "99.99" -> 9999
    [] OTHER -> 0

\* Math.round(amount * 100) for a non-negative amount in mills: cents
MathRoundCents(mills) == (mills + 5) \div 10

\* amount.toString(): the decimal string of a number, kept as a tagged value
NumberToString(mills) == [str |-> mills]

\* Math.ceil(a / b) for b > 0
MathCeil(a, b) == -((-a) \div b)

\* Math.round(q * 100) for a positive rational q of cents/100, round half up
MathRoundRat(q) == (2 * q.num + q.den) \div (2 * q.den)

(***************************************************************************)
(* A JS Map: a sequence of <<key, value>> entries in insertion order.      *)
(***************************************************************************)
MapHas(m, k) == \E i \in 1..Len(m) : m[i][1] = k

MapGet(m, k) ==
  IF MapHas(m, k)
    THEN m[CHOOSE i \in 1..Len(m) : m[i][1] = k][2]
    ELSE Undefined

MapSet(m, k, v) ==
  IF MapHas(m, k)
    THEN [i \in 1..Len(m) |-> IF m[i][1] = k THEN <<k, v>> ELSE m[i]]
    ELSE Append(m, <<k, v>>)

MapValues(m) == [i \in 1..Len(m) |-> m[i][2]]

\* Object spread {...a, ...b}: the fields of both, b's values winning
Spread(a, b) ==
  [f \in (DOMAIN a) \cup (DOMAIN b) |-> IF f \in DOMAIN b THEN b[f] ELSE a[f]]

\* Array.prototype.find, given the indices whose elements pass the test: the
\* first such element, or undefined
ArrayFind(a, passing) ==
  IF passing # {}
    THEN a[CHOOSE i \in passing : \A j \in passing : i <= j]
    ELSE Undefined

(***************************************************************************)
(* State.                                                                  *)
(***************************************************************************)
VARIABLES
  users,                \* MemStorage.users
  currentUserId,        \* MemStorage.currentUserId
  membershipPlans,      \* MemStorage.membershipPlans
  payments,             \* MemStorage.payments
  userMemberships,      \* MemStorage.userMemberships
  currentPlanId,        \* MemStorage.currentPlanId
  currentPaymentId,     \* MemStorage.currentPaymentId
  currentMembershipId,  \* MemStorage.currentMembershipId
  now,                  \* the wall clock, in ticks
  gatewayIntents,       \* payment intents the gateway has created
  req,                  \* the request handled last
  res,                  \* the response sent to it
  gatewayCalls,         \* the gateway calls made while handling it
  effects,              \* the storage and gateway calls it awaited, in order
  sent,                 \* how many responses were sent to it
  inflight              \* the handlers suspended at an await, with their locals

store == <<users, membershipPlans, payments, userMemberships, currentUserId,
           currentPlanId, currentPaymentId, currentMembershipId>>

exchange == <<req, res, gatewayCalls, effects, sent>>

vars == <<users, membershipPlans, payments, userMemberships, currentUserId,
          currentPlanId, currentPaymentId, currentMembershipId,
          now, gatewayIntents, req, res, gatewayCalls, effects, sent, inflight>>

(***************************************************************************)
(* MemStorage                                                              *)
(***************************************************************************)
\* a counter that hands out its value without advancing
NextId_stuck(current) == current

\* const id = this.currentXId++ : the counter after handing out its value
NextId(current) == current + 1

getUser(us, id) == MapGet(us, id)

getUserByUsername(us, username) ==
  LET values == MapValues(us)
  IN  ArrayFind(values, {i \in 1..Len(values) : values[i].username = username})

\* createUser: the record stored under the next user id
createUser(insertUser, id) == Spread(insertUser, [id |-> id])

monthlyPlan(id) ==
  [id |-> id, name |-> "Monthly Membership", type |-> "monthly",
   price |-> "9.99", validityDays |-> 30]

annualPlan(id) ==
  [id |-> id, name |-> "Annual Membership", type |-> "annual",
   price |-> "99.99", validityDays |-> 365]

\* initializePlans, started with currentPlanId = first: the map and the counter
initializePlans(first) ==
  [plans |-> MapSet(MapSet(<<>>, first, monthlyPlan(first)),
                    NextId(first), annualPlan(NextId(first))),
   next |-> NextId(NextId(first))]

\* a listing with the plan added last first
getMembershipPlans_latestFirst(plans) ==
  [i \in 1..Len(plans) |-> plans[Len(plans) + 1 - i][2]]

getMembershipPlans(plans) == MapValues(plans)

\* a lookup that falls back to the first plan instead of reporting a miss
getMembershipPlan_fallback(plans, id) ==
  IF MapHas(plans, id) THEN MapGet(plans, id) ELSE plans[1][2]

getMembershipPlan(plans, id) == MapGet(plans, id)

\* createPayment: the record stored under the next payment id
createPayment(payment, id, time) ==
  Spread(payment,
         [id |-> id,
          userId |-> Null,
          status |-> IF "status" \in DOMAIN payment /\ payment.status # ""
                       THEN payment.status ELSE "pending",
          createdAt |-> time])

getPayment(pays, id) == MapGet(pays, id)

\* createUserMembership: the record stored under the next membership id
createUserMembership(membership, id, time) ==
  Spread(membership, [id |-> id, startDate |-> time, createdAt |-> time])

\* a lookup that forgets the userId test
getUserMembership_anyUser(mems, userId) ==
  LET values == MapValues(mems)
  IN  ArrayFind(values, {i \in 1..Len(values) : values[i].status = "active"})

\* a lookup that resolves its argument against the membership's own id
getUserMembership_byId(mems, userId) ==
  LET values == MapValues(mems)
  IN  ArrayFind(values, {i \in 1..Len(values) :
                           values[i].id = userId /\ values[i].status = "active"})

getUserMembership(mems, userId) ==
  LET values == MapValues(mems)
  IN  ArrayFind(values, {i \in 1..Len(values) :
                           values[i].userId = userId /\ values[i].status = "active"})

\* updateUserMembership: [threw, map, value]
\* an update that stores the given fields under an id it does not find
updateUserMembership_upsert(mems, id, updates) ==
  LET existing == MapGet(mems, id)
      updated == IF existing = Undefined THEN updates
                                         ELSE Spread(existing, updates)
  IN  [threw |-> FALSE, error |-> "",
       map |-> MapSet(mems, id, updated), value |-> updated]

updateUserMembership(mems, id, updates) ==
  LET existing == MapGet(mems, id)
      updated == Spread(existing, updates)
  IN  IF existing = Undefined
        THEN [threw |-> TRUE, error |-> "Membership not found",
              map |-> mems, value |-> Undefined]
        ELSE [threw |-> FALSE, error |-> "",
              map |-> MapSet(mems, id, updated), value |-> updated]

\* a lookup that joins the payment to the membership created with it
getUserMembershipByEmail_ownPurchase(pays, mems, email) ==
  LET ps == MapValues(pays)
      payment == ArrayFind(ps, {i \in 1..Len(ps) : ps[i].email = email})
      values == MapValues(mems)
  IN  IF payment = Undefined THEN Undefined
      ELSE ArrayFind(values, {i \in 1..Len(values) :
                                values[i].id = payment.id
                                  /\ values[i].status = "active"})

\* a lookup that joins on the latest payment of the email
getUserMembershipByEmail_lastPayment(pays, mems, email) ==
  LET ps == MapValues(pays)
      withEmail == {i \in 1..Len(ps) : ps[i].email = email}
      payment == ps[CHOOSE i \in withEmail : \A j \in withEmail : j <= i]
      values == MapValues(mems)
  IN  IF withEmail = {} THEN Undefined
      ELSE ArrayFind(values, {i \in 1..Len(values) :
                                values[i].planId = payment.planId
                                  /\ values[i].status = "active"})

getUserMembershipByEmail(pays, mems, email) ==
  LET ps == MapValues(pays)
      payment == ArrayFind(ps, {i \in 1..Len(ps) : ps[i].email = email})
      values == MapValues(mems)
  IN  IF payment = Undefined THEN Undefined
      ELSE ArrayFind(values, {i \in 1..Len(values) :
                                values[i].planId = payment.planId
                                  /\ values[i].status = "active"})

(***************************************************************************)
(* Initial state: new MemStorage(), no request handled yet.                *)
(***************************************************************************)
NoRequest == [op |-> "none"]
NoResponse == [status |-> 0]
\* no request is being handled
Idle == req = NoRequest

\* the handler invocations that can be suspended at the same time
Handlers == {1, 2}
\* a handler slot with no invocation in it
Free == [pc |-> "free"]

Init ==
  /\ users = <<>>
  /\ currentUserId = 1
  /\ membershipPlans = initializePlans(1).plans
  /\ currentPlanId = initializePlans(1).next
  /\ payments = <<>>
  /\ userMemberships = <<>>
  /\ currentPaymentId = 1
  /\ currentMembershipId = 1
  /\ now = 0
  /\ gatewayIntents = 0
  /\ req = NoRequest
  /\ res = NoResponse
  /\ gatewayCalls = <<>>
  /\ effects = <<>>
  /\ sent = 0
  /\ inflight = [h \in Handlers |-> Free]

(***************************************************************************)
(* Inputs.                                                                 *)
(***************************************************************************)
PlanIds == {0, 1, 2, 3}
Amounts == {9994}          \* 9.994 dollars, in mills: 999 cents once rounded
Emails == {"a@x.io", "b@x.io", "nobody"}
Names == {"Ann"}
MembershipIdParams == {"1", "2", "abc"}

ValidEmails == {"a@x.io", "b@x.io"}

\* the bodies sent: every well-formed one, and two that the schema rejects
PaymentBodies ==
  LET all == [planId : PlanIds, amount : Amounts, cardholderName : Names,
              email : Emails, cardNumber : {"4242424242424242"},
              expiryDate : {"12/30"}, cvv : {"123"}]
  IN  {b \in all : \/ b.planId > 0 /\ b.email \in ValidEmails
                   \/ b.planId = 0 /\ b.email = "a@x.io"
                   \/ b.planId = 1 /\ b.email = "nobody"}

\* insertPaymentSchema.safeParse(body).success
ValidPayment(body) ==
  /\ body.planId > 0
  /\ body.amount > 0
  /\ body.cardholderName # ""
  /\ body.email \in ValidEmails

(***************************************************************************)
(* POST /api/payments                                                      *)
(***************************************************************************)
\* the amount of the payment intent, in cents
PaymentIntentAmount(paymentData, plan) == MathRoundCents(paymentData.amount)

\* the payment intent request sent to the gateway
PaymentIntentParams(paymentData, plan) ==
  [amount |-> PaymentIntentAmount(paymentData, plan),
   currency |-> "usd",
   metadata |-> [planId |-> paymentData.planId,
                 email |-> paymentData.email,
                 cardholderName |-> paymentData.cardholderName]]

\* a handler that does not wait for the gateway's answer
PaymentProceeds_ignoresGateway(outcome, isPaymentSuccessful) == isPaymentSuccessful

\* the handler goes on to write the store: the intent was created and the
\* simulated card processing succeeded
PaymentProceeds(outcome, isPaymentSuccessful) ==
  outcome = "ok" /\ isPaymentSuccessful

\* the whole validated body handed to the store, amount as a string
PaymentToStore_wholeBody(paymentData, paymentIntent) ==
  Spread(paymentData, [amount |-> NumberToString(paymentData.amount),
                       status |-> "completed"])

\* the argument of storage.createPayment
PaymentToStore(paymentData, paymentIntent) ==
  [planId |-> paymentData.planId,
   amount |-> NumberToString(paymentData.amount),
   cardholderName |-> paymentData.cardholderName,
   email |-> paymentData.email,
   status |-> "completed"]

\* a date bumped by validityDays time units instead of days
AddDays_wrongUnit(time, validityDays) == time + validityDays

\* endDate = new Date(); endDate.setDate(endDate.getDate() + validityDays)
AddDays(time, validityDays) == time + validityDays * TicksPerDay

\* the argument of storage.createUserMembership
MembershipToStore(paymentData, plan, paymentIntent, time) ==
  [userId |-> 1,
   planId |-> paymentData.planId,
   status |-> "active",
   endDate |-> AddDays(time, plan.validityDays),
   stripeSubscriptionId |-> paymentIntent.id]

\* a catch block that falls through to the 500 answer after the 400 one
CatchResponses_noReturn(error) ==
  IF error = "StripeError" THEN <<400, 500>> ELSE <<500>>

\* the catch block: the statuses it answers with, 400 for a StripeError and
\* 500 for anything else
CatchResponses(error) == IF error = "StripeError" THEN <<400>> ELSE <<500>>

\* the status the client receives from the catch block
CatchStatus(error) == CatchResponses(error)[1]

\* Array.prototype.includes
Includes(a, x) == \E i \in 1..Len(a) : a[i] = x

\* a handler that resolves the plan before it validates the body
PostPaymentsCalls_lookupFirst(body, plan, outcome, isPaymentSuccessful) ==
  <<"getMembershipPlan">> \o
    (IF ~ValidPayment(body) \/ plan = Undefined THEN <<>>
     ELSE <<"paymentIntents.create">> \o
       (IF PaymentProceeds(outcome, isPaymentSuccessful)
          THEN <<"createPayment", "createUserMembership">>
          ELSE <<>>))

\* a handler that stores the payment before it looks at the card result
PostPaymentsCalls_storeBeforeCardCheck(body, plan, outcome, isPaymentSuccessful) ==
  IF ~ValidPayment(body) THEN <<>>
  ELSE <<"getMembershipPlan">> \o
    (IF plan = Undefined THEN <<>>
     ELSE <<"paymentIntents.create">> \o
       (IF outcome = "ok" THEN <<"createPayment">> ELSE <<>>) \o
       (IF PaymentProceeds(outcome, isPaymentSuccessful)
          THEN <<"createUserMembership">>
          ELSE <<>>))

\* the storage and gateway calls the handler awaits, in program order
PostPaymentsCalls(body, plan, outcome, isPaymentSuccessful) ==
  IF ~ValidPayment(body) THEN <<>>
  ELSE <<"getMembershipPlan">> \o
    (IF plan = Undefined THEN <<>>
     ELSE <<"paymentIntents.create">> \o
       (IF PaymentProceeds(outcome, isPaymentSuccessful)
          THEN <<"createPayment", "createUserMembership">>
          ELSE <<>>))

PostPayments(body, outcome, isPaymentSuccessful) ==
  LET plan == getMembershipPlan(membershipPlans, body.planId)
      calls == PostPaymentsCalls(body, plan, outcome, isPaymentSuccessful)
      paymentIntent == [id |-> gatewayIntents + 1]
      call == [params |-> PaymentIntentParams(body, plan), outcome |-> outcome]
      payment == createPayment(PaymentToStore(body, paymentIntent),
                               currentPaymentId, now)
      membership == createUserMembership(
                      MembershipToStore(body, plan, paymentIntent, now),
                      currentMembershipId, now)
  IN
  /\ req' = [op |-> "purchase", body |-> body]
  /\ effects' = calls
  /\ UNCHANGED <<users, currentUserId, membershipPlans, currentPlanId, now>>
  /\ IF Includes(calls, "paymentIntents.create")
       THEN /\ gatewayCalls' = <<call>>
            /\ gatewayIntents' = IF outcome = "ok" THEN gatewayIntents + 1
                                                   ELSE gatewayIntents
       ELSE /\ gatewayCalls' = <<>>
            /\ UNCHANGED gatewayIntents
  /\ IF Includes(calls, "createPayment")
       THEN /\ payments' = MapSet(payments, currentPaymentId, payment)
            /\ currentPaymentId' = NextId(currentPaymentId)
       ELSE UNCHANGED <<payments, currentPaymentId>>
  /\ IF Includes(calls, "createUserMembership")
       THEN /\ userMemberships' =
                 MapSet(userMemberships, currentMembershipId, membership)
            /\ currentMembershipId' = NextId(currentMembershipId)
       ELSE UNCHANGED <<userMemberships, currentMembershipId>>
  /\ IF ~ValidPayment(body)
       THEN /\ res' = [status |-> 400, message |-> "Invalid payment data"]
            /\ sent' = 1
     ELSE IF plan = Undefined
       THEN /\ res' = [status |-> 404, message |-> "Selected plan not found"]
            /\ sent' = 1
     ELSE IF PaymentProceeds(outcome, isPaymentSuccessful)
       THEN /\ res' = [status |-> 200, success |-> TRUE,
                       payment |-> [id |-> payment.id,
                                    planId |-> payment.planId,
                                    amount |-> payment.amount,
                                    status |-> payment.status,
                                    createdAt |-> payment.createdAt,
                                    stripePaymentIntentId |-> paymentIntent.id],
                       plan |-> [name |-> plan.name, type |-> plan.type,
                                 validityDays |-> plan.validityDays]]
            /\ sent' = 1
     ELSE IF outcome = "ok"
       THEN /\ res' = [status |-> 400, message |-> "Payment failed. Please check your card details and try again."]
            /\ sent' = 1
     ELSE /\ res' = [status |-> CatchStatus(outcome),
                     message |-> "Payment failed: gateway"]
          /\ sent' = Len(CatchResponses(outcome))

\* the request reaches the gateway, so that its outcome matters
CallsGateway(body) ==
  ValidPayment(body) /\ getMembershipPlan(membershipPlans, body.planId) # Undefined

Purchase ==
  /\ Idle
  /\ UNCHANGED inflight
  /\ Len(payments) < MaxRecords
  /\ \E body \in PaymentBodies :
       /\ IF CallsGateway(body)
            THEN \/ \E isPaymentSuccessful \in BOOLEAN :
                      PostPayments(body, "ok", isPaymentSuccessful)
                 \/ PostPayments(body, "StripeError", TRUE)
            ELSE PostPayments(body, "ok", TRUE)
       /\ gatewayIntents' <= MaxIntents

(***************************************************************************)
(* GET /api/membership/:email                                              *)
(***************************************************************************)
GetMembership(email) ==
  LET membership == getUserMembershipByEmail(payments, userMemberships, email)
      plan == getMembershipPlan(membershipPlans, membership.planId)
  IN
  /\ req' = [op |-> "lookup", email |-> email]
  /\ gatewayCalls' = <<>>
  /\ effects' = <<"getUserMembershipByEmail">> \o
                  (IF membership = Undefined THEN <<>>
                                             ELSE <<"getMembershipPlan">>)
  /\ sent' = 1
  /\ UNCHANGED <<store, now, gatewayIntents>>
  /\ IF membership = Undefined
       THEN res' = [status |-> 404, message |-> "No active membership found"]
     ELSE IF plan = Undefined
       THEN res' = [status |-> 404, message |-> "Plan not found"]
     ELSE res' = [status |-> 200,
                  membership |-> [id |-> membership.id,
                                  planId |-> membership.planId,
                                  status |-> membership.status,
                                  startDate |-> membership.startDate,
                                  endDate |-> membership.endDate],
                  plan |-> plan]

Lookup == Idle /\ UNCHANGED inflight /\ \E email \in Emails : GetMembership(email)

(***************************************************************************)
(* POST /api/membership/:membershipId/change-plan                          *)
(***************************************************************************)
Zero == [num |-> 0, den |-> 1]

\* days remaining that never go below 0
DaysRemaining_clamped(membership, time) ==
  IF "endDate" \in DOMAIN membership /\ membership.endDate > time
    THEN MathCeil(membership.endDate - time, TicksPerDay)
    ELSE 0

\* ceil((endDate - now) / one day), 0 for a membership without endDate
DaysRemaining(membership, time) ==
  IF "endDate" \in DOMAIN membership
    THEN MathCeil(membership.endDate - time, TicksPerDay)
    ELSE 0

\* any change of price billed as an upgrade
IsUpgrade_anyChange(newPrice, currentPrice) == newPrice # currentPrice

\* the change is billed as an upgrade
IsUpgrade(newPrice, currentPrice) == newPrice > currentPrice

\* an upgrade recognised by the daily rate instead of the total price
ProratedAmount_byDailyRate(currentPlan, newPlan, daysRemaining) ==
  LET currentPrice == parseFloat(currentPlan.price)
      newPrice == parseFloat(newPlan.price)
      num == newPrice * currentPlan.validityDays
               - currentPrice * newPlan.validityDays
  IN  IF num > 0
        THEN [num |-> num * daysRemaining,
              den |-> newPlan.validityDays * currentPlan.validityDays]
        ELSE Zero

\* (dailyNewRate - dailyCurrentRate) * daysRemaining for an upgrade, else 0;
\* a rational number of cents
ProratedAmount(currentPlan, newPlan, daysRemaining) ==
  LET currentPrice == parseFloat(currentPlan.price)
      newPrice == parseFloat(newPlan.price)
  IN  IF IsUpgrade(newPrice, currentPrice)
        THEN [num |-> (newPrice * currentPlan.validityDays
                        - currentPrice * newPlan.validityDays) * daysRemaining,
              den |-> newPlan.validityDays * currentPlan.validityDays]
        ELSE Zero

\* a charge for every amount other than zero
ChargeNeeded_nonZero(proratedAmount) == proratedAmount.num # 0

\* a payment intent is created for the prorated amount
ChargeNeeded(proratedAmount) == proratedAmount.num > 0

\* the one-off payment intent request sent to the gateway
ProrationIntentParams(membershipId, currentPlan, newPlan, proratedAmount) ==
  [amount |-> MathRoundRat(proratedAmount),
   currency |-> "usd",
   metadata |-> [membershipId |-> membershipId,
                 planChange |-> "upgrade",
                 originalPlanId |-> currentPlan.id,
                 newPlanId |-> newPlan.id]]

\* a plan change that adds the new plan's days to the time left
PlanChangeUpdates_carriesOver(currentMembership, newPlanId, newPlan, charged, paymentIntent, time) ==
  [planId |-> newPlanId,
   endDate |-> AddDays(currentMembership.endDate, newPlan.validityDays),
   stripeSubscriptionId |-> IF charged THEN paymentIntent.id
                            ELSE currentMembership.stripeSubscriptionId]

\* a plan change that leaves the end date alone when the plan stays the same
PlanChangeUpdates_samePlanKeepsEndDate(currentMembership, newPlanId, newPlan, charged, paymentIntent, time) ==
  [planId |-> newPlanId,
   endDate |-> IF newPlanId = currentMembership.planId
                 THEN currentMembership.endDate
                 ELSE AddDays(time, newPlan.validityDays),
   stripeSubscriptionId |-> IF charged THEN paymentIntent.id
                            ELSE currentMembership.stripeSubscriptionId]

\* a plan change that also restarts the membership
PlanChangeUpdates_restarts(currentMembership, newPlanId, newPlan, charged, paymentIntent, time) ==
  [planId |-> newPlanId,
   startDate |-> time,
   endDate |-> AddDays(time, newPlan.validityDays),
   stripeSubscriptionId |-> IF charged THEN paymentIntent.id
                            ELSE currentMembership.stripeSubscriptionId]

\* the fields written by the plan change
PlanChangeUpdates(currentMembership, newPlanId, newPlan, charged, paymentIntent, time) ==
  [planId |-> newPlanId,
   endDate |-> AddDays(time, newPlan.validityDays),
   stripeSubscriptionId |-> IF charged THEN paymentIntent.id
                            ELSE currentMembership.stripeSubscriptionId]

\* a handler that writes the membership before it charges
PostChangePlanCalls_updateFirst(membershipId, newPlanId, currentMembership, currentPlan, newPlan, charged, outcome) ==
  IF isNaN(membershipId) \/ newPlanId = 0 THEN <<>>
  ELSE <<"getUserMembership">> \o
    (IF currentMembership = Undefined THEN <<>>
     ELSE <<"getMembershipPlan", "getMembershipPlan">> \o
       (IF currentPlan = Undefined \/ newPlan = Undefined THEN <<>>
        ELSE <<"updateUserMembership">> \o
             (IF charged THEN <<"paymentIntents.create">> ELSE <<>>)))

\* the storage and gateway calls the handler awaits, in program order
PostChangePlanCalls(membershipId, newPlanId, currentMembership, currentPlan, newPlan, charged, outcome) ==
  IF isNaN(membershipId) \/ newPlanId = 0 THEN <<>>
  ELSE <<"getUserMembership">> \o
    (IF currentMembership = Undefined THEN <<>>
     ELSE <<"getMembershipPlan", "getMembershipPlan">> \o
       (IF currentPlan = Undefined \/ newPlan = Undefined THEN <<>>
        ELSE (IF charged THEN <<"paymentIntents.create">> ELSE <<>>) \o
             (IF charged /\ outcome # "ok" THEN <<>>
                                           ELSE <<"updateUserMembership">>)))

PostChangePlan(param, newPlanId, outcome) ==
  LET membershipId == parseInt(param)
      currentMembership == getUserMembership(userMemberships, membershipId.n)
      currentPlan == getMembershipPlan(membershipPlans, currentMembership.planId)
      newPlan == getMembershipPlan(membershipPlans, newPlanId)
      daysRemaining == DaysRemaining(currentMembership, now)
      proratedAmount == ProratedAmount(currentPlan, newPlan, daysRemaining)
      charged == ChargeNeeded(proratedAmount)
      calls == PostChangePlanCalls(membershipId, newPlanId, currentMembership,
                                   currentPlan, newPlan, charged, outcome)
      paymentIntent == [id |-> gatewayIntents + 1]
      call == [params |-> ProrationIntentParams(membershipId.n, currentPlan,
                                                newPlan, proratedAmount),
               outcome |-> outcome]
      update == updateUserMembership(userMemberships, membershipId.n,
                  PlanChangeUpdates(currentMembership, newPlanId, newPlan,
                                    charged, paymentIntent, now))
  IN
  /\ req' = [op |-> "changePlan", membershipId |-> param, newPlanId |-> newPlanId]
  /\ effects' = calls
  /\ UNCHANGED <<users, currentUserId, membershipPlans, currentPlanId, payments,
                 currentPaymentId, currentMembershipId, now>>
  /\ IF Includes(calls, "paymentIntents.create")
       THEN /\ gatewayCalls' = <<call>>
            /\ gatewayIntents' = IF outcome = "ok" THEN gatewayIntents + 1
                                                   ELSE gatewayIntents
       ELSE /\ gatewayCalls' = <<>>
            /\ UNCHANGED gatewayIntents
  /\ IF Includes(calls, "updateUserMembership")
       THEN userMemberships' = update.map
       ELSE UNCHANGED userMemberships
  /\ IF isNaN(membershipId) \/ newPlanId = 0
       THEN /\ res' = [status |-> 400, message |-> "Invalid membership ID or plan ID"]
            /\ sent' = 1
     ELSE IF currentMembership = Undefined
       THEN /\ res' = [status |-> 404, message |-> "Membership not found"]
            /\ sent' = 1
     ELSE IF currentPlan = Undefined \/ newPlan = Undefined
       THEN /\ res' = [status |-> 404, message |-> "Plan not found"]
            /\ sent' = 1
     ELSE IF charged /\ outcome # "ok"
       THEN /\ res' = [status |-> CatchStatus(outcome),
                       message |-> "Plan change failed: gateway"]
            /\ sent' = Len(CatchResponses(outcome))
     ELSE IF update.threw
       THEN /\ res' = [status |-> CatchStatus("Error"),
                       message |-> "Plan change failed. Please try again."]
            /\ sent' = Len(CatchResponses("Error"))
     ELSE /\ res' = [status |-> 200, success |-> TRUE,
                     membership |-> update.value,
                     plan |-> newPlan,
                     proratedAmount |-> proratedAmount,
                     paymentIntentId |-> IF charged THEN paymentIntent.id ELSE 0]
          /\ sent' = 1

ChangePlan ==
  /\ Idle
  /\ UNCHANGED inflight
  /\ \E param \in MembershipIdParams, newPlanId \in PlanIds :
       \/ /\ PostChangePlan(param, newPlanId, "ok")
          /\ gatewayIntents' <= MaxIntents
       \/ /\ PostChangePlan(param, newPlanId, "StripeError")
          /\ gatewayCalls' # <<>>

(***************************************************************************)
(* GET /api/membership-plans and GET /api/membership-plans/:id             *)
(***************************************************************************)
PlanIdParams == {"1", "3", "abc"}

GetMembershipPlans ==
  /\ req' = [op |-> "plans"]
  /\ res' = [status |-> 200, plans |-> getMembershipPlans(membershipPlans)]
  /\ gatewayCalls' = <<>>
  /\ effects' = <<"getMembershipPlans">>
  /\ sent' = 1
  /\ UNCHANGED <<store, now, gatewayIntents>>

GetMembershipPlanById(param) ==
  LET id == parseInt(param)
      plan == getMembershipPlan(membershipPlans, id.n)
  IN
  /\ req' = [op |-> "plan", id |-> param]
  /\ gatewayCalls' = <<>>
  /\ effects' = IF isNaN(id) THEN <<>> ELSE <<"getMembershipPlan">>
  /\ sent' = 1
  /\ UNCHANGED <<store, now, gatewayIntents>>
  /\ IF isNaN(id)
       THEN res' = [status |-> 400, message |-> "Invalid plan ID"]
     ELSE IF plan = Undefined
       THEN res' = [status |-> 404, message |-> "Plan not found"]
     ELSE res' = [status |-> 200, plan |-> plan]

Plans ==
  /\ Idle
  /\ UNCHANGED inflight
  /\ \/ GetMembershipPlans
     \/ \E param \in PlanIdParams : GetMembershipPlanById(param)

(***************************************************************************)
(* GET /api/payments/:id                                                   *)
(***************************************************************************)
PaymentIdParams == {"1", "2", "abc"}

GetPaymentById(param) ==
  LET id == parseInt(param)
      payment == getPayment(payments, id.n)
  IN
  /\ req' = [op |-> "payment", id |-> param]
  /\ gatewayCalls' = <<>>
  /\ effects' = IF isNaN(id) THEN <<>> ELSE <<"getPayment">>
  /\ sent' = 1
  /\ UNCHANGED <<store, now, gatewayIntents>>
  /\ IF isNaN(id)
       THEN res' = [status |-> 400, message |-> "Invalid payment ID"]
     ELSE IF payment = Undefined
       THEN res' = [status |-> 404, message |-> "Payment not found"]
     ELSE res' = [status |-> 200,
                  payment |-> [id |-> payment.id,
                               planId |-> payment.planId,
                               amount |-> payment.amount,
                               status |-> payment.status,
                               createdAt |-> payment.createdAt]]

PaymentStatus == Idle /\ UNCHANGED inflight /\ \E param \in PaymentIdParams : GetPaymentById(param)

(***************************************************************************)
(* POST /api/create-payment-intent                                         *)
(***************************************************************************)
IntentBodies ==
  [planId : {2, 3}, email : {"a@x.io"}, cardholderName : Names]

\* the payment intent request sent to the gateway: Math.round(plan.price * 100)
\* on the price string, which JS coerces to a number
CreateIntentParams(body, plan) ==
  [amount |-> parseFloat(plan.price),
   currency |-> "usd",
   metadata |-> [planId |-> NumberToString(body.planId),
                 email |-> body.email,
                 cardholderName |-> body.cardholderName]]

PostCreatePaymentIntent(body, outcome) ==
  LET plan == getMembershipPlan(membershipPlans, body.planId)
      paymentIntent == [id |-> gatewayIntents + 1]
      call == [params |-> CreateIntentParams(body, plan), outcome |-> outcome]
  IN
  /\ req' = [op |-> "createIntent", body |-> body]
  /\ UNCHANGED <<store, now>>
  /\ IF plan = Undefined
       THEN /\ res' = [status |-> 404, message |-> "Selected plan not found"]
            /\ gatewayCalls' = <<>>
            /\ effects' = <<"getMembershipPlan">>
            /\ sent' = 1
            /\ UNCHANGED gatewayIntents
     ELSE
       /\ gatewayCalls' = <<call>>
       /\ effects' = <<"getMembershipPlan", "paymentIntents.create">>
       /\ IF outcome = "ok"
            THEN /\ gatewayIntents' = gatewayIntents + 1
                 /\ res' = [status |-> 200,
                            paymentIntentId |-> paymentIntent.id,
                            amount |-> plan.price,
                            planName |-> plan.name]
                 /\ sent' = 1
            ELSE /\ UNCHANGED gatewayIntents
                 /\ res' = [status |-> CatchStatus(outcome),
                            message |-> "Payment intent creation failed: gateway"]
                 /\ sent' = Len(CatchResponses(outcome))

CreateIntent ==
  /\ Idle
  /\ UNCHANGED inflight
  /\ \E body \in IntentBodies :
       \/ /\ PostCreatePaymentIntent(body, "ok")
          /\ gatewayIntents' <= MaxIntents
       \/ /\ PostCreatePaymentIntent(body, "StripeError")
          /\ gatewayCalls' # <<>>

(***************************************************************************)
(* The response is delivered and the server waits for the next request;    *)
(* the clock advances between requests.                                    *)
(***************************************************************************)
Done ==
  /\ ~Idle
  /\ UNCHANGED inflight
  /\ req' = NoRequest
  /\ res' = NoResponse
  /\ gatewayCalls' = <<>>
  /\ effects' = <<>>
  /\ sent' = 0
  /\ UNCHANGED <<store, now, gatewayIntents>>

Tick ==
  /\ Idle
  /\ UNCHANGED inflight
  /\ \E step \in TickSteps :
       /\ now + step <= MaxTicks * TickStep
       /\ now' = now + step
  /\ UNCHANGED <<store, gatewayIntents, exchange>>

Next ==
  \/ Purchase
  \/ Lookup
  \/ ChangePlan
  \/ Plans
  \/ PaymentStatus
  \/ CreateIntent
  \/ Done
  \/ Tick

Spec == Init /\ [][Next]_vars

(***************************************************************************)
(* A membership is cancelled between requests: the transition active ->    *)
(* cancelled, taken by a caller of updateUserMembership outside the route  *)
(* handlers above.                                                         *)
(***************************************************************************)
CancelMembership ==
  /\ Idle
  /\ UNCHANGED inflight
  /\ \E i \in 1..Len(userMemberships) :
       LET update == updateUserMembership(userMemberships, userMemberships[i][1],
                                          [status |-> "cancelled"])
       IN  /\ userMemberships[i][2].status = "active"
           /\ userMemberships' = update.map
  /\ UNCHANGED <<users, currentUserId, membershipPlans, currentPlanId, payments,
                 currentPaymentId, currentMembershipId, now, gatewayIntents,
                 exchange>>

CancelNext == Next \/ CancelMembership

CancelSpec == Init /\ [][CancelNext]_vars

(***************************************************************************)
(* The storage interface used directly: any caller of IStorage, in any     *)
(* order.  req is the call and res.returned the value it resolves to.      *)
(***************************************************************************)
InsertUsers == [username : {"ann"}, password : {"pw"}]
Usernames == {"ann", "bob"}
InsertPayments ==
  [planId : {1}, amount : {NumberToString(9994)}, cardholderName : Names,
   email : {"a@x.io"}, status : {"completed", ""}]
InsertMemberships ==
  [userId : {1}, planId : {1}, status : {"active"}, endDate : {30 * TicksPerDay},
   stripeSubscriptionId : {0}]
MembershipUpdates == {[status |-> "cancelled"], [planId |-> 2]}
RecordIds == {1, 2, 3, 4}

StorageCall(op, arg, returned) ==
  /\ req' = [op |-> op, arg |-> arg]
  /\ res' = [status |-> 0, returned |-> returned]
  /\ gatewayCalls' = <<>>
  /\ effects' = <<op>>
  /\ sent' = 0
  /\ UNCHANGED <<membershipPlans, currentPlanId, now, gatewayIntents, inflight>>

StorageCreateUser ==
  /\ Len(users) < MaxRecords
  /\ \E insertUser \in InsertUsers :
       LET user == createUser(insertUser, currentUserId)
       IN  /\ users' = MapSet(users, currentUserId, user)
           /\ currentUserId' = NextId(currentUserId)
           /\ StorageCall("createUser", insertUser, user)
           /\ UNCHANGED <<payments, currentPaymentId, userMemberships,
                          currentMembershipId>>

StorageCreatePayment ==
  /\ Len(payments) < MaxRecords
  /\ \E insertPayment \in InsertPayments :
       LET payment == createPayment(insertPayment, currentPaymentId, now)
       IN  /\ payments' = MapSet(payments, currentPaymentId, payment)
           /\ currentPaymentId' = NextId(currentPaymentId)
           /\ StorageCall("createPayment", insertPayment, payment)
           /\ UNCHANGED <<users, currentUserId, userMemberships,
                          currentMembershipId>>

StorageCreateUserMembership ==
  /\ Len(userMemberships) < MaxRecords
  /\ \E insertMembership \in InsertMemberships :
       LET membership ==
             createUserMembership(insertMembership, currentMembershipId, now)
       IN  /\ userMemberships' =
                MapSet(userMemberships, currentMembershipId, membership)
           /\ currentMembershipId' = NextId(currentMembershipId)
           /\ StorageCall("createUserMembership", insertMembership, membership)
           /\ UNCHANGED <<users, currentUserId, payments, currentPaymentId>>

StorageUpdateUserMembership ==
  \E id \in RecordIds, updates \in MembershipUpdates :
    LET update == updateUserMembership(userMemberships, id, updates)
    IN  /\ userMemberships' = update.map
        /\ StorageCall("updateUserMembership", [id |-> id, updates |-> updates],
                       [threw |-> update.threw, error |-> update.error,
                        value |-> update.value])
        /\ UNCHANGED <<users, currentUserId, payments, currentPaymentId,
                       currentMembershipId>>

StorageRead ==
  /\ UNCHANGED <<users, currentUserId, payments, currentPaymentId,
                 userMemberships, currentMembershipId>>
  /\ \/ \E id \in RecordIds :
          \/ StorageCall("getUser", id, getUser(users, id))
          \/ StorageCall("getPayment", id, getPayment(payments, id))
          \/ StorageCall("getUserMembership", id,
                         getUserMembership(userMemberships, id))
          \/ StorageCall("getMembershipPlan", id,
                         getMembershipPlan(membershipPlans, id))
     \/ \E username \in Usernames :
          StorageCall("getUserByUsername", username,
                      getUserByUsername(users, username))
     \/ StorageCall("getMembershipPlans", <<>>,
                    getMembershipPlans(membershipPlans))

StorageNext ==
  \/ StorageCreateUser
  \/ StorageCreatePayment
  \/ StorageCreateUserMembership
  \/ StorageUpdateUserMembership
  \/ StorageRead

StorageSpec == Init /\ [][StorageNext]_vars

(***************************************************************************)
(* Concurrent requests: a handler runs from one await to the next in one   *)
(* step, and any suspended handler may be the next to run.  A storage      *)
(* method reads or writes the store when it is called; its awaited result  *)
(* is a local of the handler.  The answers leave the model: what is kept   *)
(* is the store, the gateway's intents and the locals of the suspended     *)
(* handlers.                                                               *)
(***************************************************************************)
\* the purchase bodies sent concurrently: one the schema rejects, one for the
\* monthly plan and one for a plan that does not exist
ConcurrentBodies ==
  {b \in PaymentBodies : b.email = "a@x.io" /\ b.planId \in {0, 1, 3}}

\* the positions of a suspended purchase
PurchasePcs ==
  {"purchase:getMembershipPlan", "purchase:paymentIntents.create",
   "purchase:createPayment", "purchase:createUserMembership"}

\* a new invocation takes the first slot that is not in use
FirstFree(h) ==
  /\ inflight[h] = Free
  /\ \A g \in Handlers : g < h => inflight[g] # Free

\* purchases that have not stored their payment yet
PendingPurchases ==
  {h \in Handlers : inflight[h].pc \in {"purchase:getMembershipPlan",
                                        "purchase:paymentIntents.create"}}

\* handler h runs on to its next await
Await(h, locals) ==
  /\ inflight' = [inflight EXCEPT ![h] = locals]
  /\ UNCHANGED exchange

\* handler h answers and ends
Respond(h, response) ==
  /\ inflight' = [inflight EXCEPT ![h] = Free]
  /\ response.status \in {200, 400, 404, 500}
  /\ UNCHANGED exchange

\* POST /api/payments up to await storage.getMembershipPlan
BeginPurchase ==
  \E h \in Handlers, body \in ConcurrentBodies :
    /\ FirstFree(h)
    /\ Len(payments) + Cardinality(PendingPurchases) < MaxRecords
    /\ UNCHANGED <<store, now, gatewayIntents>>
    /\ IF ~ValidPayment(body)
         THEN Respond(h, [status |-> 400, message |-> "Invalid payment data"])
         ELSE Await(h, [pc |-> "purchase:getMembershipPlan",
                        body |-> body,
                        plan |-> getMembershipPlan(membershipPlans, body.planId)])

\* the plan check, up to await stripe.paymentIntents.create
PurchaseCreateIntent ==
  \E h \in Handlers :
    LET r == inflight[h] IN
    /\ r.pc = "purchase:getMembershipPlan"
    /\ UNCHANGED <<store, now, gatewayIntents>>
    /\ IF r.plan = Undefined
         THEN Respond(h, [status |-> 404, message |-> "Selected plan not found"])
         ELSE Await(h, [r EXCEPT !.pc = "purchase:paymentIntents.create"])

\* the gateway's answer and the card check, up to await storage.createPayment
PurchaseCreatePayment ==
  \E h \in Handlers :
    LET r == inflight[h]
        paymentIntent == [id |-> gatewayIntents + 1]
        payment == createPayment(PaymentToStore(r.body, paymentIntent),
                                 currentPaymentId, now)
    IN
    /\ r.pc = "purchase:paymentIntents.create"
    /\ UNCHANGED <<users, currentUserId, membershipPlans, currentPlanId,
                   userMemberships, currentMembershipId, now>>
    /\ \/ /\ UNCHANGED <<payments, currentPaymentId, gatewayIntents>>
          /\ Respond(h, [status |-> CatchStatus("StripeError"),
                         message |-> "Payment failed: gateway"])
       \/ /\ gatewayIntents < MaxIntents
          /\ gatewayIntents' = gatewayIntents + 1
          /\ \E isPaymentSuccessful \in BOOLEAN :
               IF PaymentProceeds("ok", isPaymentSuccessful)
                 THEN /\ payments' = MapSet(payments, currentPaymentId, payment)
                      /\ currentPaymentId' = NextId(currentPaymentId)
                      /\ Await(h, [pc |-> "purchase:createPayment",
                                   body |-> r.body,
                                   plan |-> r.plan,
                                   paymentIntent |-> paymentIntent,
                                   payment |-> payment])
                 ELSE /\ UNCHANGED <<payments, currentPaymentId>>
                      /\ Respond(h, [status |-> 400, message |-> "Payment failed. Please check your card details and try again."])

\* the end date, up to await storage.createUserMembership
PurchaseCreateMembership ==
  \E h \in Handlers :
    LET r == inflight[h]
        membership == createUserMembership(
                        MembershipToStore(r.body, r.plan, r.paymentIntent, now),
                        currentMembershipId, now)
    IN
    /\ r.pc = "purchase:createPayment"
    /\ userMemberships' = MapSet(userMemberships, currentMembershipId, membership)
    /\ currentMembershipId' = NextId(currentMembershipId)
    /\ UNCHANGED <<users, currentUserId, membershipPlans, currentPlanId,
                   payments, currentPaymentId, now, gatewayIntents>>
    /\ Await(h, [pc |-> "purchase:createUserMembership",
                 payment |-> r.payment,
                 membership |-> membership])

\* res.json of the purchase
PurchaseRespond ==
  \E h \in Handlers :
    LET r == inflight[h] IN
    /\ r.pc = "purchase:createUserMembership"
    /\ UNCHANGED <<store, now, gatewayIntents>>
    /\ Respond(h, [status |-> 200, success |-> TRUE])

\* change-plan up to await storage.getUserMembership
BeginChangePlan ==
  \E h \in Handlers, param \in MembershipIdParams, newPlanId \in PlanIds :
    LET membershipId == parseInt(param) IN
    /\ FirstFree(h)
    /\ UNCHANGED <<store, now, gatewayIntents>>
    /\ IF isNaN(membershipId) \/ newPlanId = 0
         THEN Respond(h, [status |-> 400,
                          message |-> "Invalid membership ID or plan ID"])
         ELSE Await(h, [pc |-> "changePlan:getUserMembership",
                        membershipId |-> membershipId.n,
                        newPlanId |-> newPlanId,
                        currentMembership |->
                          getUserMembership(userMemberships, membershipId.n)])

\* the membership check, up to await storage.getMembershipPlan(current)
ChangePlanCurrentPlan ==
  \E h \in Handlers :
    LET r == inflight[h] IN
    /\ r.pc = "changePlan:getUserMembership"
    /\ UNCHANGED <<store, now, gatewayIntents>>
    /\ IF r.currentMembership = Undefined
         THEN Respond(h, [status |-> 404, message |-> "Membership not found"])
         ELSE Await(h, [pc |-> "changePlan:getMembershipPlan",
                        membershipId |-> r.membershipId,
                        newPlanId |-> r.newPlanId,
                        currentMembership |-> r.currentMembership,
                        currentPlan |->
                          getMembershipPlan(membershipPlans,
                                            r.currentMembership.planId)])

\* up to await storage.getMembershipPlan(newPlanId)
ChangePlanNewPlan ==
  \E h \in Handlers :
    LET r == inflight[h] IN
    /\ r.pc = "changePlan:getMembershipPlan"
    /\ UNCHANGED <<store, now, gatewayIntents>>
    /\ Await(h, [pc |-> "changePlan:getMembershipPlan:new",
                 membershipId |-> r.membershipId,
                 newPlanId |-> r.newPlanId,
                 currentMembership |-> r.currentMembership,
                 currentPlan |-> r.currentPlan,
                 newPlan |-> getMembershipPlan(membershipPlans, r.newPlanId)])

\* a handler that reads the membership again before it prorates
ProrationBasis_reread(currentMembership, stored) == stored

\* the membership the proration is computed from: the handler's local
ProrationBasis(currentMembership, stored) == currentMembership

\* the membership that handler locals r will write to
StoredFor(r) == MapGet(userMemberships, r.membershipId)

\* the stored planId or endDate is no longer the one the handler read
Overwritten(r) ==
  \/ StoredFor(r) = Undefined
  \/ StoredFor(r).planId # r.currentMembership.planId
  \/ StoredFor(r).endDate # r.currentMembership.endDate

\* the locals after the call of storage.updateUserMembership
AfterUpdate(r, proratedAmount, stale, paymentIntentId, update) ==
  [pc |-> "changePlan:updateUserMembership",
   membershipId |-> r.membershipId,
   newPlanId |-> r.newPlanId,
   currentMembership |-> r.currentMembership,
   proratedAmount |-> proratedAmount,
   stale |-> stale,
   paymentIntentId |-> paymentIntentId,
   updatedMembership |-> update.value]

\* the plan check and the proration, up to await stripe.paymentIntents.create
\* when something is charged and up to await storage.updateUserMembership
\* otherwise
ChangePlanProrate ==
  \E h \in Handlers :
    LET r == inflight[h]
        basis == ProrationBasis(r.currentMembership, StoredFor(r))
        daysRemaining == DaysRemaining(basis, now)
        proratedAmount == ProratedAmount(r.currentPlan, r.newPlan, daysRemaining)
        update == updateUserMembership(userMemberships, r.membershipId,
                    PlanChangeUpdates(r.currentMembership, r.newPlanId,
                                      r.newPlan, FALSE, [id |-> 0], now))
    IN
    /\ r.pc = "changePlan:getMembershipPlan:new"
    /\ UNCHANGED <<users, currentUserId, membershipPlans, currentPlanId, payments,
                   currentPaymentId, currentMembershipId, now, gatewayIntents>>
    /\ IF r.currentPlan = Undefined \/ r.newPlan = Undefined
         THEN /\ UNCHANGED userMemberships
              /\ Respond(h, [status |-> 404, message |-> "Plan not found"])
       ELSE IF ChargeNeeded(proratedAmount)
         THEN /\ UNCHANGED userMemberships
              /\ Await(h, [pc |-> "changePlan:paymentIntents.create",
                           membershipId |-> r.membershipId,
                           newPlanId |-> r.newPlanId,
                           currentMembership |-> r.currentMembership,
                           newPlan |-> r.newPlan,
                           proratedAmount |-> proratedAmount,
                           stale |-> Overwritten(r)])
       ELSE IF update.threw
         THEN /\ UNCHANGED userMemberships
              /\ Respond(h, [status |-> CatchStatus("Error"),
                             message |-> "Plan change failed. Please try again."])
       ELSE /\ userMemberships' = update.map
            /\ Await(h, AfterUpdate(r, proratedAmount, Overwritten(r), 0, update))

\* the gateway's answer, up to await storage.updateUserMembership
ChangePlanUpdate ==
  \E h \in Handlers :
    LET r == inflight[h]
        paymentIntent == [id |-> gatewayIntents + 1]
        update == updateUserMembership(userMemberships, r.membershipId,
                    PlanChangeUpdates(r.currentMembership, r.newPlanId,
                                      r.newPlan, TRUE, paymentIntent, now))
    IN
    /\ r.pc = "changePlan:paymentIntents.create"
    /\ UNCHANGED <<users, currentUserId, membershipPlans, currentPlanId, payments,
                   currentPaymentId, currentMembershipId, now>>
    /\ \/ /\ UNCHANGED <<userMemberships, gatewayIntents>>
          /\ Respond(h, [status |-> CatchStatus("StripeError"),
                         message |-> "Plan change failed: gateway"])
       \/ /\ gatewayIntents < MaxIntents
          /\ gatewayIntents' = gatewayIntents + 1
          /\ IF update.threw
               THEN /\ UNCHANGED userMemberships
                    /\ Respond(h, [status |-> CatchStatus("Error"),
                                   message |-> "Plan change failed. Please try again."])
               ELSE /\ userMemberships' = update.map
                    /\ Await(h, AfterUpdate(r, r.proratedAmount, r.stale,
                                            paymentIntent.id, update))

\* res.json of the plan change
ChangePlanRespond ==
  \E h \in Handlers :
    LET r == inflight[h] IN
    /\ r.pc = "changePlan:updateUserMembership"
    /\ UNCHANGED <<store, now, gatewayIntents>>
    /\ Respond(h, [status |-> 200, success |-> TRUE])

\* purchases arriving at any time, each running on whenever it is scheduled
ConcurrentPurchaseNext ==
  \/ BeginPurchase
  \/ PurchaseCreateIntent
  \/ PurchaseCreatePayment
  \/ PurchaseCreateMembership
  \/ PurchaseRespond
  \/ Tick

ConcurrentPurchaseSpec == Init /\ [][ConcurrentPurchaseNext]_vars

\* no handler is suspended
Quiescent == \A h \in Handlers : inflight[h] = Free

\* a purchase that arrives while nothing else is being handled
PurchaseArrivesAlone == Quiescent /\ BeginPurchase

\* a plan change that arrives while no purchase is being handled
PlanChangeArrives ==
  /\ \A h \in Handlers : inflight[h].pc \notin PurchasePcs
  /\ BeginChangePlan

\* the clock advances between bursts of requests
QuietTick == Quiescent /\ Tick

\* plan changes arriving at any time, next to purchases handled one by one
ConcurrentChangePlanNext ==
  \/ PurchaseArrivesAlone
  \/ PurchaseCreateIntent
  \/ PurchaseCreatePayment
  \/ PurchaseCreateMembership
  \/ PurchaseRespond
  \/ PlanChangeArrives
  \/ ChangePlanCurrentPlan
  \/ ChangePlanNewPlan
  \/ ChangePlanProrate
  \/ ChangePlanUpdate
  \/ ChangePlanRespond
  \/ QuietTick

ConcurrentChangePlanSpec == Init /\ [][ConcurrentChangePlanNext]_vars

(***************************************************************************)
(* Properties.                                                             *)
(***************************************************************************)
Memberships == {userMemberships[i][2] : i \in 1..Len(userMemberships)}
Payments == {payments[i][2] : i \in 1..Len(payments)}
ActiveOf(userId) ==
  {m \in Memberships : m.userId = userId /\ m.status = "active"}
UserIds == {1, 2, 3}
PriceOf(planId) == parseFloat(MapGet(membershipPlans, planId).price)

\* the last request was a purchase / a plan change
IsPurchase(r) == r.op = "purchase"
IsChangePlan(r) == r.op = "changePlan"
\* a plan change request that passes the handler's input check
WellFormedChange(r) ==
  IsChangePlan(r) /\ ~parseInt(r.membershipId).nan /\ r.newPlanId # 0

\* C1: every userId has at most one UserMembership with status 'active'.
C1_AtMostOneActivePerUser ==
  \A u \in UserIds : Cardinality(ActiveOf(u)) <= 1

\* C2: a plan change addressed to the id m of a stored active membership,
\* with a plan that exists, is not answered 404, and when it succeeds the
\* membership with id m is the one that carries the new plan.
C2_ChangePlanAddressesMembershipId ==
  [][(/\ WellFormedChange(req')
      /\ MapHas(userMemberships, parseInt(req'.membershipId).n)
      /\ MapGet(userMemberships, parseInt(req'.membershipId).n).status = "active"
      /\ MapHas(membershipPlans, req'.newPlanId))
     => (/\ res'.status # 404
         /\ res'.status = 200 =>
              MapGet(userMemberships', parseInt(req'.membershipId).n).planId
                = req'.newPlanId)]_vars

\* C3: the lookups by userId and by email answer not-found for a user without
\* a membership and return the membership of a user who has exactly one
\* active membership (the store holds one purchase, made with that email),
\* also after a plan change.
C3_LookupsFindTheMember ==
  /\ \A u \in UserIds :
       /\ {m \in Memberships : m.userId = u} = {}
            => getUserMembership(userMemberships, u) = Undefined
       /\ Cardinality(ActiveOf(u)) = 1
            => getUserMembership(userMemberships, u) \in ActiveOf(u)
  /\ \A e \in Emails :
       /\ {p \in Payments : p.email = e} = {}
            => getUserMembershipByEmail(payments, userMemberships, e) = Undefined
       /\ (/\ Len(payments) = 1 /\ payments[1][2].email = e
           /\ Len(userMemberships) = 1 /\ userMemberships[1][2].status = "active")
            => getUserMembershipByEmail(payments, userMemberships, e)
                 = userMemberships[1][2]

\* C4: a purchase that passes validation and names a plan that does not exist
\* is answered 404, calls the gateway not at all and leaves the store as it was.
C4_UnknownPlanPurchase ==
  [][(/\ IsPurchase(req')
      /\ ValidPayment(req'.body)
      /\ ~MapHas(membershipPlans, req'.body.planId))
     => (/\ res'.status = 404
         /\ gatewayCalls' = <<>>
         /\ Len(payments') = Len(payments)
         /\ Len(userMemberships') = Len(userMemberships)
         /\ store' = store)]_vars

C4_Witness ==
  /\ IsPurchase(req)
  /\ ValidPayment(req.body)
  /\ ~MapHas(membershipPlans, req.body.planId)
  /\ res.status = 404
  /\ Len(payments) >= 1

\* C5: a purchase whose gateway call fails writes no Payment and no
\* UserMembership: the store is the same after as before.
C5_GatewayFailureWritesNothing ==
  [][(/\ IsPurchase(req')
      /\ gatewayCalls' # <<>>
      /\ gatewayCalls'[1].outcome # "ok")
     => (/\ payments' = payments
         /\ userMemberships' = userMemberships
         /\ store' = store)]_vars

C5_Witness ==
  /\ IsPurchase(req)
  /\ gatewayCalls # <<>>
  /\ gatewayCalls[1].outcome = "StripeError"
  /\ res.status = 400
  /\ Len(payments) >= 1

\* C6: the amount an accepted purchase charges through the gateway is the
\* price of the plan the request names, in cents.
C6_ChargesThePlanPrice ==
  (IsPurchase(req) /\ res.status = 200)
    => (/\ Len(gatewayCalls) = 1
        /\ gatewayCalls[1].params.amount = PriceOf(req.body.planId))

\* the fields of a Payment that can hold a provider identifier
ProviderIdFields == {"stripeSubscriptionId", "stripeCustomerId", "stripePaymentIntentId"}

\* C7: the Payment a successful purchase records has status 'active' or
\* 'completed' and carries the provider identifier the gateway returned for
\* that purchase.
C7_PaymentCarriesProviderIds ==
  (IsPurchase(req) /\ res.status = 200)
    => LET payment == MapGet(payments, res.payment.id)
       IN  /\ payment.status \in {"active", "completed"}
           /\ \E f \in ProviderIdFields \cap DOMAIN payment :
                payment[f] = res.payment.stripePaymentIntentId

\* C8: a successful purchase of plan p adds exactly one UserMembership, with
\* status 'active', planId p and endDate = now + p.validityDays days.
C8_PurchaseCreatesMembership ==
  [][(IsPurchase(req') /\ res'.status = 200)
     => (/\ Len(userMemberships') = Len(userMemberships) + 1
         /\ SubSeq(userMemberships', 1, Len(userMemberships)) = userMemberships
         /\ LET created == userMemberships'[Len(userMemberships')][2]
                p == MapGet(membershipPlans, req'.body.planId)
            IN  /\ created.status = "active"
                /\ created.planId = req'.body.planId
                /\ created.endDate = now + p.validityDays * TicksPerDay)]_vars

C8_Witness ==
  /\ IsPurchase(req)
  /\ res.status = 200
  /\ now > 0
  /\ Len(userMemberships) = 2

\* C9: a plan change that passes the input check and names a membership id
\* that is not in the store is answered 404, makes no gateway call and
\* leaves every membership and payment as it was.
C9_ChangePlanUnknownMembership ==
  [][(/\ WellFormedChange(req')
      /\ ~MapHas(userMemberships, parseInt(req'.membershipId).n))
     => (/\ res'.status = 404
         /\ gatewayCalls' = <<>>
         /\ userMemberships' = userMemberships
         /\ payments' = payments)]_vars

C9_Witness ==
  /\ WellFormedChange(req)
  /\ ~MapHas(userMemberships, parseInt(req.membershipId).n)
  /\ MapHas(membershipPlans, req.newPlanId)
  /\ Len(userMemberships) >= 1
  /\ res.status = 404

\* C10: a plan change to a plan whose total price is not above the current
\* plan's answers proratedAmount 0 and makes no gateway call, whatever the
\* days remaining.
C10_NoChargeUnlessDearer ==
  [][(IsChangePlan(req') /\ res'.status = 200)
     => LET before == MapGet(userMemberships, res'.membership.id)
        IN  PriceOf(res'.plan.id) <= PriceOf(before.planId)
              => (res'.proratedAmount.num = 0 /\ gatewayCalls' = <<>>)]_vars

C10_Witness ==
  /\ IsChangePlan(req)
  /\ res.status = 200
  /\ res.plan.id = 1
  /\ payments[1][2].planId = 2
  /\ res.membership.id = 1
  /\ res.membership.endDate > payments[1][2].createdAt + 30 * TicksPerDay

\* the plan of a stored plan id
PlanOf(planId) == MapGet(membershipPlans, planId)
\* whole days from time to endDate, rounded up
DaysLeft(endDate, time) ==
  IF endDate >= time
    THEN (endDate - time + TicksPerDay - 1) \div TicksPerDay
    ELSE -((time - endDate) \div TicksPerDay)
\* (newPrice / newDays - currentPrice / currentDays) * days as a rational of
\* cents over the denominator newDays * currentDays, for a dearer new plan;
\* otherwise 0
Proration(fromPlanId, toPlanId, days) ==
  IF PriceOf(toPlanId) > PriceOf(fromPlanId)
    THEN [num |-> (PriceOf(toPlanId) * PlanOf(fromPlanId).validityDays
                    - PriceOf(fromPlanId) * PlanOf(toPlanId).validityDays)
                   * days,
          den |-> PlanOf(toPlanId).validityDays
                    * PlanOf(fromPlanId).validityDays]
    ELSE [num |-> 0, den |-> 1]

\* C11: a plan change is an upgrade exactly when the new plan's total price
\* is above the current plan's; for an upgrade the answered proratedAmount is
\* (newPrice / newDays - currentPrice / currentDays) * daysRemaining, where
\* daysRemaining = ceil((endDate - now) / one day), and otherwise it is 0.
C11_UpgradeByTotalPrice ==
  [][(IsChangePlan(req') /\ res'.status = 200)
     => LET before == MapGet(userMemberships, res'.membership.id)
        IN  res'.proratedAmount =
              Proration(before.planId, req'.newPlanId,
                        DaysLeft(before.endDate, now))]_vars

\* monthly (9.99 / 30 days) to annual (99.99 / 365 days): an upgrade by total
\* price whose daily rate is lower, so that the amount is negative
C11_Witness ==
  /\ IsChangePlan(req)
  /\ res.status = 200
  /\ res.plan.id = 2
  /\ PriceOf(2) > PriceOf(1)
  /\ PriceOf(2) * PlanOf(1).validityDays < PriceOf(1) * PlanOf(2).validityDays
  /\ res.proratedAmount.num < 0

\* the position of a call among the calls a handler awaited (0: not made)
PositionOf(calls, name) ==
  IF Includes(calls, name)
    THEN CHOOSE i \in 1..Len(calls) : calls[i] = name
    ELSE 0

\* C12: a plan change that reaches the charge decision calls the gateway
\* exactly when the prorated amount is positive, and then once and before it
\* updates the membership; the membership is written only if no charge was
\* due or the charge succeeded, so a gateway failure leaves planId and
\* endDate as they were.
C12_ChargeBeforeUpdate ==
  [][(/\ WellFormedChange(req')
      /\ MapHas(userMemberships, parseInt(req'.membershipId).n)
      /\ res'.status # 404)
     => LET id == parseInt(req'.membershipId).n
            before == MapGet(userMemberships, id)
            after == MapGet(userMemberships', id)
            due == Proration(before.planId, req'.newPlanId,
                             DaysLeft(before.endDate, now))
            charge == PositionOf(effects', "paymentIntents.create")
            update == PositionOf(effects', "updateUserMembership")
        IN  /\ (due.num > 0) <=> (gatewayCalls' # <<>>)
            /\ (due.num > 0) <=> (charge > 0)
            /\ Len(gatewayCalls') <= 1
            /\ (charge > 0 /\ update > 0) => charge < update
            /\ (update > 0 \/ userMemberships' # userMemberships)
                 => (gatewayCalls' = <<>> \/ gatewayCalls'[1].outcome = "ok")
            /\ (gatewayCalls' # <<>> /\ gatewayCalls'[1].outcome # "ok")
                 => (/\ after.planId = before.planId
                     /\ after.endDate = before.endDate
                     /\ res'.status = 400)]_vars

\* the charge for the change of an expired monthly membership to the annual
\* plan fails at the gateway
C12_Witness ==
  /\ WellFormedChange(req)
  /\ req.newPlanId = 2
  /\ gatewayCalls # <<>>
  /\ gatewayCalls[1].outcome = "StripeError"
  /\ gatewayCalls[1].params.amount > 0
  /\ MapGet(userMemberships, parseInt(req.membershipId).n).planId = 1
  /\ res.status = 400

\* the raw card fields of a purchase body, the values the model submits in
\* them, and the text fields of stored and forwarded records
RawCardFields == {"cardNumber", "expiryDate", "cvv"}
RawCardValues ==
  UNION {{b.cardNumber, b.expiryDate, b.cvv} : b \in PaymentBodies}
TextFields == {"email", "cardholderName", "status", "currency", "planChange"}
CarriesNoCardData(record) ==
  /\ DOMAIN record \cap RawCardFields = {}
  /\ \A f \in DOMAIN record \cap TextFields : record[f] \notin RawCardValues

\* C13: no stored Payment and no request forwarded to the gateway has a
\* cardNumber, expiryDate or cvv field, or carries a submitted card value in
\* one of its text fields.
C13_NoCardDataStoredOrForwarded ==
  /\ \A p \in Payments : CarriesNoCardData(p)
  /\ \A i \in 1..Len(gatewayCalls) :
       /\ CarriesNoCardData(gatewayCalls[i].params)
       /\ CarriesNoCardData(gatewayCalls[i].params.metadata)

\* a purchase that submitted card fields was charged and stored
C13_Witness ==
  /\ IsPurchase(req)
  /\ RawCardFields \subseteq DOMAIN req.body
  /\ req.body.cardNumber \in RawCardValues
  /\ res.status = 200
  /\ gatewayCalls # <<>>
  /\ \E p \in Payments : p.id = res.payment.id /\ p.email = req.body.email

\* the least element of a non-empty set of positions
Least(positions) == CHOOSE i \in positions : \A j \in positions : i <= j
\* the positions of the stored payments made with an email, and of the active
\* memberships on a plan
PaymentsWith(email) == {i \in 1..Len(payments) : payments[i][2].email = email}
ActiveOn(planId) ==
  {j \in 1..Len(userMemberships) :
     /\ userMemberships[j][2].planId = planId
     /\ userMemberships[j][2].status = "active"}
\* the plan of the first stored payment made with an email
JoinedPlan(email) == payments[Least(PaymentsWith(email))][2].planId

\* C14: getUserMembershipByEmail(email) is undefined when no stored payment
\* has the email or no active membership is on the plan of the first payment
\* with the email; otherwise it is the first stored active membership on
\* that plan.  GET /api/membership/:email answers 404 in the first case and
\* that membership in the second.
C14_EmailLookupJoin ==
  /\ \A email \in Emails :
       LET found == getUserMembershipByEmail(payments, userMemberships, email)
       IN  IF PaymentsWith(email) = {} \/ ActiveOn(JoinedPlan(email)) = {}
             THEN found = Undefined
             ELSE found = userMemberships[Least(ActiveOn(JoinedPlan(email)))][2]
  /\ req.op = "lookup"
       => IF PaymentsWith(req.email) = {} \/ ActiveOn(JoinedPlan(req.email)) = {}
            THEN res.status = 404
            ELSE /\ res.status = 200
                 /\ res.membership.id =
                      userMemberships[Least(ActiveOn(JoinedPlan(req.email)))][2].id

\* the email paid for two different plans; the lookup answers the membership
\* on the plan of the first payment
C14_Witness ==
  /\ req.op = "lookup"
  /\ Len(payments) = 2
  /\ payments[1][2].email = req.email
  /\ payments[2][2].email = req.email
  /\ payments[1][2].planId # payments[2][2].planId
  /\ res.status = 200
  /\ res.membership.planId = payments[1][2].planId

\* the emails of the purchases that created a membership: a purchase stores
\* its payment and its membership under the same id (both counters start at 1
\* and advance together)
PurchaserEmails(membership) ==
  {p.email : p \in {q \in Payments : q.id = membership.id}}

\* C15: when email a paid for a plan before email b first paid, b's first
\* payment is for the same plan, and the membership created by a's purchase
\* is still active on that plan, the lookup by b returns a membership that
\* was created by a purchase made with another email than b.
C15_EmailJoinFalseMatch ==
  /\ currentPaymentId = currentMembershipId
  /\ \A a \in Emails, b \in Emails :
       (/\ a # b
        /\ PaymentsWith(a) # {}
        /\ PaymentsWith(b) # {}
        /\ Least(PaymentsWith(a)) < Least(PaymentsWith(b))
        /\ JoinedPlan(a) = JoinedPlan(b)
        /\ Least(PaymentsWith(a)) \in ActiveOn(JoinedPlan(a)))
       => LET found == getUserMembershipByEmail(payments, userMemberships, b)
          IN  /\ found # Undefined
              /\ PurchaserEmails(found) # {}
              /\ b \notin PurchaserEmails(found)

\* GET /api/membership/b answers the membership that a's purchase created
C15_Witness ==
  /\ req.op = "lookup"
  /\ res.status = 200
  /\ PaymentsWith(req.email) # {}
  /\ \E p \in Payments :
       /\ p.id = res.membership.id
       /\ p.email # req.email
       /\ p.planId = JoinedPlan(req.email)
  /\ \A p \in Payments : p.email = req.email => p.id # res.membership.id

\* the entries of a map have the ids 1, 2, 3, ... in insertion order
IdsInOrder(m) == \A i \in 1..Len(m) : m[i][1] = i /\ m[i][2].id = i
\* every key of a map is still a key of the map one step later, at its place
KeysKept(m, next) ==
  Len(next) >= Len(m) /\ \A i \in 1..Len(m) : next[i][1] = m[i][1]
CreateOps == {"createUser", "createPayment", "createUserMembership"}
StoredUnder(op) ==
  CASE op = "createUser" -> users
    [] op = "createPayment" -> payments
    [] op = "createUserMembership" -> userMemberships

\* C16: under any sequence of storage calls the users, payments and
\* memberships carry the ids 1, 2, 3, ... in creation order, each counter is
\* one above the number of records of its type, every create returns an id
\* one above the ids handed out before on its type, and no step removes a
\* record or changes the id it is stored under.
C16_IdsStartAtOneAndIncrease ==
  [][/\ IdsInOrder(users') /\ IdsInOrder(payments')
     /\ IdsInOrder(userMemberships')
     /\ currentUserId' = Len(users') + 1
     /\ currentPaymentId' = Len(payments') + 1
     /\ currentMembershipId' = Len(userMemberships') + 1
     /\ KeysKept(users, users') /\ KeysKept(payments, payments')
     /\ KeysKept(userMemberships, userMemberships')
     /\ req'.op \in CreateOps
          => (/\ res'.returned.id = Len(StoredUnder(req'.op)) + 1
              /\ \A i \in 1..Len(StoredUnder(req'.op)) :
                   StoredUnder(req'.op)[i][1] < res'.returned.id)]_vars

\* a second user is created after payments and memberships were, and after
\* a membership was cancelled
C16_Witness ==
  /\ req.op = "createUser"
  /\ res.returned.id = 2
  /\ Len(payments) >= 2
  /\ Len(userMemberships) >= 2
  /\ \E m \in Memberships : m.status = "cancelled"

\* the two plans seeded by the constructor
SeededPlans ==
  << [id |-> 1, name |-> "Monthly Membership", type |-> "monthly",
      price |-> "9.99", validityDays |-> 30],
     [id |-> 2, name |-> "Annual Membership", type |-> "annual",
      price |-> "99.99", validityDays |-> 365] >>

\* C17: in every reachable state getMembershipPlans() is the two seeded
\* plans, id 1 then id 2, getMembershipPlan(id) is the seeded plan of that id
\* or undefined for any other id (so that two calls agree whatever happens
\* between them), and the two plan routes answer these values.
C17_PlanCatalogConstant ==
  /\ getMembershipPlans(membershipPlans) = SeededPlans
  /\ \A id \in PlanIds :
       getMembershipPlan(membershipPlans, id)
         = IF id \in {1, 2} THEN SeededPlans[id] ELSE Undefined
  /\ req.op = "plans" => res.plans = SeededPlans
  /\ (req.op = "plan" /\ res.status = 200)
       => res.plan = SeededPlans[parseInt(req.id).n]

\* the catalog is listed after purchases, a plan change and a clock advance
C17_Witness ==
  /\ req.op = "plans"
  /\ res.status = 200
  /\ Len(res.plans) = 2
  /\ Len(payments) >= 2
  /\ now > 0
  /\ \E i \in 1..Len(payments) :
       payments[i][2].planId # userMemberships[i][2].planId

\* C18: a membership whose status is 'cancelled' never becomes 'active'
\* again, and no purchase or plan change request changes any of its fields.
C18_CancelledIsTerminal ==
  [][\A i \in 1..Len(userMemberships) :
       userMemberships[i][2].status = "cancelled"
         => (/\ userMemberships'[i][2].status # "active"
             /\ (IsPurchase(req') \/ IsChangePlan(req'))
                  => userMemberships'[i] = userMemberships[i])]_vars

\* the request fails the input check of its handler
FailsValidation(r) ==
  \/ IsPurchase(r) /\ ~ValidPayment(r.body)
  \/ IsChangePlan(r) /\ (parseInt(r.membershipId).nan \/ r.newPlanId = 0)

\* C19: a purchase or plan change request that fails the input check of its
\* handler is answered 400, once, without any storage or gateway call having
\* been made: no call is awaited, no payment intent is created and the store
\* is left as it was.
C19_ValidationFirst ==
  [][FailsValidation(req')
     => (/\ res'.status = 400
         /\ sent' = 1
         /\ effects' = <<>>
         /\ gatewayCalls' = <<>>
         /\ gatewayIntents' = gatewayIntents
         /\ store' = store)]_vars

\* rejected requests that name an existing plan and an existing membership
C19_Witness ==
  /\ FailsValidation(req)
  /\ res.status = 400
  /\ Len(userMemberships) >= 1
  /\ \/ IsPurchase(req) /\ MapHas(membershipPlans, req.body.planId)
     \/ IsChangePlan(req) /\ req.membershipId = "1"

\* the requests of the seven route handlers
RouteOps ==
  {"purchase", "lookup", "changePlan", "plans", "plan", "payment",
   "createIntent"}

\* C20: every request handled by a route handler is answered exactly once,
\* with status 200, 400, 404 or 500, and every answer other than 200 has a
\* non-empty message; nothing is sent while no request is handled.
C20_OneResponseWithMessage ==
  /\ Idle => (sent = 0 /\ res = NoResponse)
  /\ req.op \in RouteOps
       => (/\ sent = 1
           /\ res.status \in {200, 400, 404, 500}
           /\ res.status # 200
                => ("message" \in DOMAIN res /\ res.message # ""))
  /\ req.op \in RouteOps \cup {NoRequest.op}

\* the gateway throws while the payment intent of a known plan is created,
\* and the catch block answers
C20_Witness ==
  /\ req.op = "createIntent"
  /\ gatewayCalls # <<>>
  /\ gatewayCalls[1].outcome = "StripeError"
  /\ res.status = 400
  /\ sent = 1
  /\ Len(payments) >= 1

\* the fields a plan change may write
PlanChangeFields == {"planId", "endDate", "stripeSubscriptionId"}

\* C22: a plan change request leaves every payment and every membership
\* other than the one stored under the id of the path parameter as it was;
\* of that membership it changes no field other than planId, endDate and
\* stripeSubscriptionId (id, userId, status, startDate and createdAt stay),
\* and stripeSubscriptionId stays too when no charge was made.
C22_ChangePlanFrame ==
  [][IsChangePlan(req')
     => LET id == parseInt(req'.membershipId).n
        IN  /\ payments' = payments
            /\ Len(userMemberships') = Len(userMemberships)
            /\ \A i \in 1..Len(userMemberships) :
                 LET before == userMemberships[i][2]
                     after == userMemberships'[i][2]
                 IN  /\ userMemberships'[i][1] = userMemberships[i][1]
                     /\ DOMAIN after = DOMAIN before
                     /\ \A f \in DOMAIN before \ PlanChangeFields :
                          after[f] = before[f]
                     /\ userMemberships[i][1] # id => after = before
                     /\ gatewayCalls' = <<>>
                          => after.stripeSubscriptionId
                               = before.stripeSubscriptionId]_vars

\* the first of two memberships took another plan some time after it
\* started, without a charge
C22_Witness ==
  /\ IsChangePlan(req)
  /\ res.status = 200
  /\ gatewayCalls = <<>>
  /\ Len(userMemberships) = 2
  /\ res.membership.id = 1
  /\ res.membership.planId # payments[1][2].planId
  /\ res.membership.startDate < now
  /\ res.membership.endDate # AddDays(res.membership.startDate,
                                       PlanOf(payments[1][2].planId).validityDays)

\* C23: after a plan change answered 200, the endDate of the membership, as
\* stored and as answered, is the time of the request plus the validityDays
\* of the new plan, whatever the endDate was before.
C23_EndDateRecomputed ==
  [][(IsChangePlan(req') /\ res'.status = 200)
     => LET id == parseInt(req'.membershipId).n
            expected == now + PlanOf(req'.newPlanId).validityDays * TicksPerDay
        IN  /\ MapGet(userMemberships', id).endDate = expected
            /\ res'.membership.endDate = expected
            /\ now' = now]_vars

\* the only membership, bought as annual, is moved to the monthly plan a
\* month later: the eleven months left are gone
C23_Witness ==
  /\ IsChangePlan(req)
  /\ res.status = 200
  /\ Len(payments) = 1
  /\ payments[1][2].planId = 2
  /\ res.plan.id = 1
  /\ now > payments[1][2].createdAt
  /\ res.membership.endDate = now + 30 * TicksPerDay
  /\ res.membership.endDate < payments[1][2].createdAt + 365 * TicksPerDay

\* C24 as stated: whenever the endDate of the membership is in the past,
\* the daysRemaining that enter the proration of an accepted upgrade are
\* negative.
C24_ExpiredMeansNegativeDays ==
  [][(IsChangePlan(req') /\ res'.status = 200)
     => LET before == MapGet(userMemberships, res'.membership.id)
        IN  (/\ before.endDate < now
             /\ PriceOf(req'.newPlanId) > PriceOf(before.planId))
            => \E days \in -400..-1 :
                 res'.proratedAmount
                   = Proration(before.planId, req'.newPlanId, days)]_vars

\* C24: daysRemaining is ceil((endDate - now) / one day) without a clamp at
\* 0: negative when endDate is a whole day or more in the past, 0 when it is
\* less than a day in the past.  It enters the proration as it is, and a
\* plan change that finds its membership and plans is rejected only for a
\* gateway failure, never for an expired membership or for a negative
\* proratedAmount.
C24_NoClampOnDaysRemaining ==
  [][(/\ WellFormedChange(req')
      /\ MapHas(userMemberships, parseInt(req'.membershipId).n)
      /\ res'.status # 404)
     => LET before == MapGet(userMemberships, parseInt(req'.membershipId).n)
            days == DaysLeft(before.endDate, now)
            due == Proration(before.planId, req'.newPlanId, days)
        IN  /\ before.endDate + TicksPerDay <= now => days < 0
            /\ (before.endDate < now /\ now < before.endDate + TicksPerDay)
                 => days = 0
            /\ res'.status \in {200, 400}
            /\ res'.status = 400
                 => (gatewayCalls' # <<>> /\ gatewayCalls'[1].outcome # "ok")
            /\ res'.status = 200 => res'.proratedAmount = due
            /\ (due.num <= 0 \/ before.endDate < now)
                 => (res'.status = 200 \/ gatewayCalls' # <<>>)]_vars

\* a monthly membership that expired a day and a half ago is moved to the
\* annual plan: -1 day times a negative difference of rates, a charge
C24_Witness ==
  /\ IsChangePlan(req)
  /\ res.status = 200
  /\ res.plan.id = 2
  /\ res.proratedAmount.num > 0
  /\ res.proratedAmount
       = Proration(1, 2, -1)
  /\ gatewayCalls # <<>>
  /\ gatewayCalls[1].params.amount > 0

\* C25: updateUserMembership(id, updates) on an id that is not in the store
\* throws 'Membership not found' and leaves the store as it was; on an id in
\* the store it returns the existing record with exactly the fields of
\* updates overwritten, stores that record under the same id, and leaves
\* every other record and counter as it was.
C25_UpdateUserMembershipContract ==
  [][req'.op = "updateUserMembership"
     => LET id == req'.arg.id
            updates == req'.arg.updates
            existing == MapGet(userMemberships, id)
            value == res'.returned.value
        IN  /\ <<users, payments, membershipPlans, currentUserId, currentPlanId,
                 currentPaymentId, currentMembershipId>>'
                 = <<users, payments, membershipPlans, currentUserId,
                     currentPlanId, currentPaymentId, currentMembershipId>>
            /\ IF ~MapHas(userMemberships, id)
                 THEN /\ res'.returned.threw
                      /\ res'.returned.error = "Membership not found"
                      /\ userMemberships' = userMemberships
                 ELSE /\ ~res'.returned.threw
                      /\ DOMAIN value = DOMAIN existing \cup DOMAIN updates
                      /\ \A f \in DOMAIN updates : value[f] = updates[f]
                      /\ \A f \in DOMAIN existing \ DOMAIN updates :
                           value[f] = existing[f]
                      /\ MapGet(userMemberships', id) = value
                      /\ Len(userMemberships') = Len(userMemberships)
                      /\ \A i \in 1..Len(userMemberships) :
                           /\ userMemberships'[i][1] = userMemberships[i][1]
                           /\ userMemberships[i][1] # id
                                => userMemberships'[i] = userMemberships[i]]_vars

\* an update of id 3 when only the memberships 1 and 2 are stored
C25_Witness ==
  /\ req.op = "updateUserMembership"
  /\ req.arg.id = 3
  /\ Len(userMemberships) = 2
  /\ res.returned.threw
  /\ \E m \in Memberships : m.planId = 2

\* C26: every stored membership has userId 1, so a plan change whose path
\* parameter is a number k other than 1 never succeeds: when it passes the
\* input check it is answered 404 'Membership not found' and writes nothing,
\* also when an active membership with id k is stored, because the parameter
\* is looked up as a userId.
C26_OnlyParameterOneResolves ==
  [][(IsChangePlan(req') /\ ~parseInt(req'.membershipId).nan
        /\ parseInt(req'.membershipId).n # 1)
     => /\ \A m \in Memberships : m.userId = 1
        /\ getUserMembership(userMemberships, parseInt(req'.membershipId).n)
             = Undefined
        /\ res'.status # 200
        /\ WellFormedChange(req')
             => /\ res'.status = 404
                /\ res'.message = "Membership not found"
        /\ store' = store
        /\ gatewayCalls' = <<>>]_vars

\* a plan change addressed to 2 while the membership with id 2 is active
C26_Witness ==
  /\ WellFormedChange(req)
  /\ req.membershipId = "2"
  /\ MapHas(membershipPlans, req.newPlanId)
  /\ MapHas(userMemberships, 2)
  /\ MapGet(userMemberships, 2).status = "active"
  /\ res.status = 404

\* C27: with the seeded catalog, a plan change for a membership whose
\* daysRemaining is 0 or more makes no gateway call and, when it succeeds,
\* answers a proratedAmount of 0 or less (below 0 for monthly to annual with
\* days left); a plan change that calls the gateway found a membership whose
\* endDate is in the past.
C27_NoChargeBeforeExpiry ==
  [][IsChangePlan(req')
     => LET before == getUserMembership(userMemberships,
                                        parseInt(req'.membershipId).n)
        IN  /\ getMembershipPlans(membershipPlans) = SeededPlans
            /\ (before # Undefined /\ DaysLeft(before.endDate, now) >= 0)
                 => /\ gatewayCalls' = <<>>
                    /\ gatewayIntents' = gatewayIntents
                    /\ res'.status = 200
                         => /\ res'.proratedAmount.num <= 0
                            /\ res'.paymentIntentId = 0
                            /\ (before.planId = 1 /\ req'.newPlanId = 2
                                  /\ DaysLeft(before.endDate, now) > 0)
                                 => res'.proratedAmount.num < 0
            /\ gatewayCalls' # <<>>
                 => /\ before # Undefined
                    /\ before.endDate < now
                    /\ DaysLeft(before.endDate, now) < 0]_vars

\* a monthly membership with days left moved to the annual plan: a negative
\* amount and no charge
C27_Witness ==
  /\ IsChangePlan(req)
  /\ req.newPlanId = 2
  /\ res.status = 200
  /\ res.proratedAmount.num < 0
  /\ gatewayCalls = <<>>
  /\ gatewayIntents = Len(payments)
  /\ \E m \in Memberships : m.planId = 2 /\ m.endDate > now

\* C28: a plan change to the plan the membership already has is answered
\* 200 with proratedAmount 0, makes no gateway call and stores no payment,
\* and sets endDate to now + validityDays of that plan, whatever the endDate
\* was: each such request pushes the endDate out without a charge.
C28_SamePlanRenewsForFree ==
  [][IsChangePlan(req')
     => LET before == getUserMembership(userMemberships,
                                        parseInt(req'.membershipId).n)
        IN  (/\ WellFormedChange(req')
             /\ before # Undefined
             /\ req'.newPlanId = before.planId)
            => /\ res'.status = 200
               /\ res'.proratedAmount.num = 0
               /\ res'.paymentIntentId = 0
               /\ gatewayCalls' = <<>>
               /\ gatewayIntents' = gatewayIntents
               /\ payments' = payments
               /\ res'.membership.planId = before.planId
               /\ res'.membership.endDate
                    = now + PlanOf(before.planId).validityDays * TicksPerDay
               /\ MapGet(userMemberships', before.id) = res'.membership
               /\ res'.membership.stripeSubscriptionId
                    = before.stripeSubscriptionId]_vars

\* a monthly membership bought at time 0 that a later same-plan request has
\* moved past its 30 days, with no gateway call beyond the purchases
C28_Witness ==
  /\ IsChangePlan(req)
  /\ req.newPlanId = 1
  /\ res.status = 200
  /\ res.proratedAmount.num = 0
  /\ gatewayCalls = <<>>
  /\ now > 0
  /\ gatewayIntents = Len(payments)
  /\ \A p \in Payments : p.planId = 1
  /\ \E m \in Memberships :
       /\ m.planId = 1
       /\ m.endDate = now + 30 * TicksPerDay

\* C29: a purchase whose payment intent was created and whose simulated card
\* check fails is answered 400 and writes neither a Payment nor a
\* UserMembership; the Payments and the UserMemberships are equal in number
\* and no more than the payment intents, and a Payment is added only by a
\* purchase that created a payment intent in the same request.
C29_PaymentsMatchMemberships ==
  [][/\ Len(payments) = Len(userMemberships)
     /\ Len(payments') = Len(userMemberships')
     /\ Len(payments') <= gatewayIntents'
     /\ Len(payments') # Len(payments)
          => /\ IsPurchase(req')
             /\ res'.status = 200
             /\ Len(payments') = Len(payments) + 1
             /\ gatewayCalls' # <<>>
             /\ gatewayIntents' = gatewayIntents + 1
     /\ (/\ IsPurchase(req')
         /\ gatewayIntents' = gatewayIntents + 1
         /\ res'.status # 200)
          => /\ res'.status = 400
             /\ sent' = 1
             /\ effects' = <<"getMembershipPlan", "paymentIntents.create">>
             /\ store' = store]_vars

\* a purchase refused by the card check after its payment intent was
\* created, next to one purchase that went through
C29_Witness ==
  /\ IsPurchase(req)
  /\ gatewayCalls # <<>>
  /\ gatewayCalls[1].outcome = "ok"
  /\ res.status = 400
  /\ Len(payments) = 1
  /\ Len(userMemberships) = 1
  /\ gatewayIntents = 2

\* the handlers that hold a payment / a membership they created
HoldsPayment(r) ==
  r.pc \in {"purchase:createPayment", "purchase:createUserMembership"}
HoldsMembership(r) == r.pc = "purchase:createUserMembership"
\* the keys of a map are pairwise distinct and each record carries its key
KeysDistinct(m) ==
  /\ \A i, j \in 1..Len(m) : m[i][1] = m[j][1] => i = j
  /\ \A i \in 1..Len(m) : m[i][2].id = m[i][1]

\* C30: under every interleaving of concurrent purchases, each createPayment
\* and each createUserMembership stores its record under an id that no
\* record had before, next to the records already stored, so the ids handed
\* to Payments are pairwise distinct and so are those handed to
\* UserMemberships, in the store and in the handlers that hold them.
C30_CreatedIdsDistinct ==
  [][/\ \A h \in Handlers :
          LET r == inflight[h]
              q == inflight'[h]
          IN  /\ (~HoldsPayment(r) /\ HoldsPayment(q))
                   => /\ ~MapHas(payments, q.payment.id)
                      /\ MapGet(payments', q.payment.id) = q.payment
                      /\ Len(payments') = Len(payments) + 1
                      /\ \A i \in 1..Len(payments) : payments'[i] = payments[i]
              /\ (~HoldsMembership(r) /\ HoldsMembership(q))
                   => /\ ~MapHas(userMemberships, q.membership.id)
                      /\ MapGet(userMemberships', q.membership.id) = q.membership
                      /\ Len(userMemberships') = Len(userMemberships) + 1
                      /\ \A i \in 1..Len(userMemberships) :
                           userMemberships'[i] = userMemberships[i]
     /\ KeysDistinct(payments')
     /\ KeysDistinct(userMemberships')
     /\ Len(payments') = currentPaymentId' - 1
     /\ Len(userMemberships') = currentMembershipId' - 1
     /\ \A g, h \in Handlers :
          g # h =>
            /\ (HoldsPayment(inflight'[g]) /\ HoldsPayment(inflight'[h]))
                 => inflight'[g].payment.id # inflight'[h].payment.id
            /\ (HoldsMembership(inflight'[g]) /\ HoldsMembership(inflight'[h]))
                 => inflight'[g].membership.id # inflight'[h].membership.id]_vars

\* two purchases suspended together after both stored their records, the
\* one with the first payment holding the second membership
C30_Witness ==
  \E g, h \in Handlers :
    /\ g # h
    /\ HoldsMembership(inflight[g])
    /\ HoldsMembership(inflight[h])
    /\ inflight[g].payment.id = 1
    /\ inflight[g].membership.id = 2
    /\ inflight[h].payment.id = 2
    /\ inflight[h].membership.id = 1

\* C21: plan changes on one membership that interleave at their awaits are
\* not atomic.  Each computes its proratedAmount from the planId and endDate
\* it read at its start, also when another request has overwritten them in
\* the store by then, and each write puts the writer's newPlanId and
\* now + validityDays into the store whatever is there: the last writer's
\* planId and endDate are the final ones.
C21_LastWriterWins ==
  [][\A h \in Handlers :
       LET r == inflight[h]
           q == inflight'[h]
       IN  /\ (/\ r.pc = "changePlan:getMembershipPlan:new"
               /\ q.pc \in {"changePlan:paymentIntents.create",
                            "changePlan:updateUserMembership"})
                => /\ q.proratedAmount
                        = Proration(r.currentMembership.planId, r.newPlanId,
                                    DaysLeft(r.currentMembership.endDate, now))
                   /\ q.stale
                        = (\/ MapGet(userMemberships, r.membershipId).planId
                                # r.currentMembership.planId
                           \/ MapGet(userMemberships, r.membershipId).endDate
                                # r.currentMembership.endDate)
                   /\ (q.pc = "changePlan:paymentIntents.create")
                        = (q.proratedAmount.num > 0)
           /\ (/\ r.pc \in {"changePlan:getMembershipPlan:new",
                            "changePlan:paymentIntents.create"}
               /\ q.pc = "changePlan:updateUserMembership")
                => LET m == MapGet(userMemberships', r.membershipId)
                   IN  /\ m = q.updatedMembership
                       /\ m.planId = r.newPlanId
                       /\ m.endDate
                            = now + PlanOf(r.newPlanId).validityDays * TicksPerDay]_vars

\* two plan changes of one expired monthly membership, both written and not
\* yet answered: the one to the annual plan charged an amount computed from
\* the endDate it had read although the other had already overwritten it,
\* then wrote last, and the store holds its planId and endDate
C21_Witness ==
  \E g, h \in Handlers :
    /\ g # h
    /\ inflight[g].pc = "changePlan:updateUserMembership"
    /\ inflight[h].pc = "changePlan:updateUserMembership"
    /\ inflight[g].membershipId = inflight[h].membershipId
    /\ inflight[h].stale
    /\ inflight[h].paymentIntentId > 0
    /\ inflight[h].proratedAmount.num > 0
    /\ inflight[h].currentMembership.endDate < now
    /\ inflight[g].updatedMembership.endDate > now
    /\ inflight[g].updatedMembership.endDate
         # inflight[h].currentMembership.endDate
    /\ MapGet(userMemberships, inflight[h].membershipId)
         = inflight[h].updatedMembership
    /\ inflight[h].updatedMembership # inflight[g].updatedMembership
    /\ inflight[h].updatedMembership.planId = 2

====
